---------------------------- MODULE Spec2Model ----------------------------
(***************************************************************************)
(* Sandbox lifecycle of the matrx-sandbox orchestrator.                    *)
(*                                                                         *)
(* The model follows orchestrator/sandbox_manager.py and                   *)
(* orchestrator/store.py.  Every request is an asyncio task; a task keeps  *)
(* the event loop until it suspends.  With the in-memory store the store   *)
(* coroutines never suspend, so a handler only yields in asyncio.sleep;    *)
(* with the Postgres store every store call is a suspension point and its  *)
(* effect on the table is a step of its own.  Docker SDK calls are         *)
(* synchronous and never yield.                                            *)
(***************************************************************************)
EXTENDS Integers, Sequences, FiniteSets, TLC

(* ------------------------------ bounds -------------------------------- *)
NumTasks == 2          \* concurrent request tasks
MaxSandboxes == 1      \* sandboxes created in one run of Spec
MaxPollSleeps == 1     \* readiness polls that end in a sleep, in Spec

(* ------------------------- program constants -------------------------- *)
ReadyTimeout == 120    \* _wait_for_ready(timeout=120)
PollInterval == 2      \* interval = 2
MaxCommandLength == 10000   \* settings.max_command_length

Tasks == 1..NumTasks
NoTask == 0
NoId == 0
Null == 0              \* None for container_id / ssh_port
NoTime == -1           \* NULL timestamp
NoReason == "null"

TerminalStatuses == {"stopped", "failed", "expired"}
ActiveStatuses == {"ready", "running", "shutting_down"}
Reasons == {"user_requested", "graceful_shutdown", "error", "expired", "admin"}

VARIABLES
    backend,      \* "memory" | "postgres": settings.sandbox_store
    store,        \* registry: sandbox_id -> row
    containers,   \* Docker runtime: set of [cid, name, status, ready]
    tasks,        \* request tasks: task -> frame of the running handler
    cur,          \* task holding the event loop, NoTask when it is free
    nextId,       \* number of sandbox ids generated so far + 1
    nextCid,      \* number of containers the runtime has created + 1
    now,          \* wall clock
    client,       \* the agent's SandboxClient inside the container
    s3,           \* keys of the marker objects in the storage bucket
    fs,           \* the container's files: path -> file, as the tools see them
    session,      \* the agent's ToolSession and the result of its last tool call
    browser       \* the ToolSession's BrowserSession

vars == <<backend, store, containers, tasks, cur, nextId, nextCid, now, client,
          s3, fs, session, browser>>

(* --------------------------- agent tools ------------------------------ *)
MaxToolCalls == 4
\* absolute real paths: a text file and a PDF
ToolPaths == {"/a.txt", "/b.pdf"}
Chars == {"x", "y"}
\* file contents: strings of at most two characters
Contents == {<< >>} \cup [1..1 -> Chars] \cup [1..2 -> Chars]
NoFile == [exists |-> FALSE, content |-> << >>, readable |-> FALSE]
\* ToolSession.__init__; `result` is the ToolResult of the last call, `n` the
\* number of calls made, `read_ok` the paths a Read returned without error
NoResult == [tool |-> "none", path |-> "", type |-> "none", fault |-> "none"]
NewToolSession == [files_read |-> {}, read_ok |-> {}, n |-> 0, result |-> NoResult]

MaxPages == 3
NoPage == 0
\* BrowserSession.__init__; `pages` holds the ids of _pages in insertion order
NewBrowserSession == [browser |-> FALSE, connected |-> FALSE, pages |-> << >>,
                      active_page_id |-> NoPage, page_counter |-> 0,
                      result |-> "none"]

(* --------------------------- local frames ----------------------------- *)
\* a request as the authentication middleware reads it: the path, the
\* X-API-Key header and the Authorization header ("" when absent)
NoRequest == [path |-> "", x_api_key |-> "",
              authorization |-> [scheme |-> "", key |-> ""]]

\* user_id strings: "u1" and "u2" are two UUIDs in the spelling str(UUID)
\* gives, "U1" is the first UUID in upper case, "alice" is no UUID
UserIds == {"u1", "U1", "u2", "alice", ""}
NotUuid == "ValueError"
\* str(UUID(v)): the canonical spelling, or ValueError
Uuid(v) == CASE v \in {"u1", "U1"} -> "u1"
             [] v = "u2" -> "u2"
             [] OTHER -> NotUuid
DefaultUser == "u1"
\* list() without a user_id
NoUser == "None"

NoSandbox == [user_id |-> "", status |-> "none", container_id |-> Null,
              ssh_port |-> Null, created_at |-> NoTime]

IdleTask == [op |-> "idle", pc |-> "idle", sid |-> NoId, sb |-> NoSandbox,
             saved |-> FALSE, elapsed |-> 0, graceful |-> FALSE,
             reason |-> NoReason, ret |-> "none", retRec |-> NoSandbox,
             cause |-> "none", cid |-> Null, synced |-> TRUE,
             stoppedAtBegin |-> FALSE, ranCmd |-> FALSE,
             cmdLen |-> 0, afterDestroy |-> FALSE,
             execs |-> 0, user |-> "none", exitCode |-> 0, port |-> Null,
             rows |-> {}, live |-> {}, marked |-> {}, calls |-> << >>,
             req |-> NoRequest, api_key |-> "",
             user_id |-> NoUser, listed |-> << >>]

\* SandboxResponse(...) as built by create_sandbox
NewSandboxFor(user_id) ==
    [user_id |-> user_id, status |-> "creating", container_id |-> Null,
     ssh_port |-> Null, created_at |-> now]
NewSandbox == NewSandboxFor(DefaultUser)

\* the fields of a row that a SandboxResponse carries
Proj(row) == [user_id |-> row.user_id,
              status |-> row.status, container_id |-> row.container_id,
              ssh_port |-> row.ssh_port, created_at |-> row.created_at]

\* uuid4().hex[:12]: a fresh id on every call.  The id is also the container's
\* name; with fresh ids the runtime never sees a name that is taken.
NewSandboxIdReused == IF nextId > 1 THEN nextId - 1 ELSE nextId
NewSandboxId == nextId

HostPort(cid) == 32767 + cid

(* ------------------------------ store --------------------------------- *)
\* InMemorySandboxStore.save: the dict holds the object itself
MemSave(st, sid, obj) ==
    [i \in DOMAIN st \cup {sid} |->
        IF i = sid
        THEN IF sid \in DOMAIN st
             THEN [st[sid] EXCEPT !.user_id = obj.user_id,
                                  !.status = obj.status,
                                  !.container_id = obj.container_id,
                                  !.ssh_port = obj.ssh_port,
                                  !.created_at = obj.created_at]
             ELSE [user_id |-> obj.user_id,
                   status |-> obj.status, container_id |-> obj.container_id,
                   ssh_port |-> obj.ssh_port, created_at |-> obj.created_at,
                   stopped_at |-> NoTime, stop_reason |-> NoReason,
                   last_heartbeat_at |-> NoTime]
        ELSE st[i]]

\* PostgresSandboxStore.save: INSERT ... ON CONFLICT (sandbox_id) DO UPDATE
\* SET status, container_id, config; ssh_port is not a column of the insert;
\* user_id is inserted as UUID(sandbox.user_id) and read back as str(...)
PgSave(st, sid, obj) ==
    [i \in DOMAIN st \cup {sid} |->
        IF i = sid
        THEN IF sid \in DOMAIN st
             THEN [st[sid] EXCEPT !.status = obj.status,
                                  !.container_id = obj.container_id]
             ELSE [user_id |-> Uuid(obj.user_id),
                   status |-> obj.status, container_id |-> obj.container_id,
                   ssh_port |-> Null, created_at |-> obj.created_at,
                   stopped_at |-> NoTime, stop_reason |-> NoReason,
                   last_heartbeat_at |-> NoTime]
        ELSE st[i]]

Save(st, sid, obj) ==
    IF backend = "memory" THEN MemSave(st, sid, obj) ELSE PgSave(st, sid, obj)

\* InMemorySandboxStore.update_status: sets the status only
MemUpdateStatus(st, sid, status) ==
    IF sid \notin DOMAIN st THEN st ELSE [st EXCEPT ![sid].status = status]

\* PostgresSandboxStore.update_status: also sets stopped_at = NOW() when the
\* status is STOPPED
PgUpdateStatus(st, sid, status) ==
    IF sid \notin DOMAIN st THEN st
    ELSE IF status = "stopped"
         THEN [st EXCEPT ![sid].status = status, ![sid].stopped_at = now]
         ELSE [st EXCEPT ![sid].status = status]

UpdateStatus(st, sid, status) ==
    IF backend = "postgres" THEN PgUpdateStatus(st, sid, status)
    ELSE MemUpdateStatus(st, sid, status)

\* InMemorySandboxStore.mark_stopped: sets STOPPED and drops the reason
MemMarkStopped(st, sid, reason) ==
    IF sid \notin DOMAIN st THEN st ELSE [st EXCEPT ![sid].status = "stopped"]

\* PostgresSandboxStore.mark_stopped: sets status, stopped_at and stop_reason
PgMarkStopped(st, sid, reason) ==
    IF sid \notin DOMAIN st THEN st
    ELSE [st EXCEPT ![sid].status = "stopped", ![sid].stopped_at = now,
                    ![sid].stop_reason = reason]

MarkStopped(st, sid, reason) ==
    IF backend = "postgres" THEN PgMarkStopped(st, sid, reason)
    ELSE MemMarkStopped(st, sid, reason)

\* SandboxStore.update_heartbeat, which InMemorySandboxStore inherits:
\* update_status(RUNNING)
MemUpdateHeartbeat(st, sid) == MemUpdateStatus(st, sid, "running")

\* PostgresSandboxStore.update_heartbeat: sets last_heartbeat_at = NOW()
PgUpdateHeartbeat(st, sid) ==
    IF sid \notin DOMAIN st THEN st
    ELSE [st EXCEPT ![sid].last_heartbeat_at = now]

UpdateHeartbeat(st, sid) ==
    IF backend = "postgres" THEN PgUpdateHeartbeat(st, sid)
    ELSE MemUpdateHeartbeat(st, sid)

(* ------------------------- the sandbox object ------------------------- *)
\* The SandboxResponse a handler holds.  With the in-memory store the object
\* saved IS the registry's record, so reads and writes go to the registry.
Aliased(t) == backend = "memory" /\ tasks[t].saved /\ tasks[t].sid \in DOMAIN store

Obj(t) == IF Aliased(t) THEN Proj(store[tasks[t].sid]) ELSE tasks[t].sb

\* registry after the handler of t assigned `obj` to its sandbox object
StoreAfterWrite(t, obj) ==
    IF Aliased(t) THEN MemSave(store, tasks[t].sid, obj) ELSE store

(* ------------------------------ runtime ------------------------------- *)
Named(name) == {c \in containers : c.name = name}
Live(name) == {c \in Named(name) : c.status = "running"}

\* the event loop: a step of t needs the loop free or held by t
CanStep(t) == cur \in {NoTask, t}
\* after a store call: Postgres suspends the task, the in-memory store does not
AfterStoreCall(t) == IF backend = "memory" THEN t ELSE NoTask

\* SandboxClient before any callback is made
IdleClient == [op |-> "none", pc |-> "idle", attempt |-> 0, waits |-> << >>,
               last_error |-> "none", status |-> 0, error |-> "none",
               result |-> "none"]

Init ==
    /\ backend \in {"memory", "postgres"}
    /\ store = << >>
    /\ containers = {}
    /\ tasks = [t \in Tasks |-> IdleTask]
    /\ cur = NoTask
    /\ nextId = 1
    /\ nextCid = 1
    /\ now = 0
    /\ client = IdleClient
    /\ s3 = {}
    /\ fs = [p \in ToolPaths |-> NoFile]
    /\ session = NewToolSession
    /\ browser = NewBrowserSession

(* ----------------------------- create --------------------------------- *)
Frame(t, f) == [tasks EXCEPT ![t] = f]
\* a finished frame keeps only what the handler returned or raised
Done(f) == [IdleTask EXCEPT !.op = f.op, !.pc = "done", !.sid = f.sid,
                            !.ret = f.ret, !.retRec = f.retRec,
                            !.cause = f.cause, !.cid = f.cid,
                            !.synced = f.synced,
                            !.stoppedAtBegin = f.stoppedAtBegin,
                            !.ranCmd = f.ranCmd,
                            !.cmdLen = f.cmdLen,
                            !.afterDestroy = f.afterDestroy,
                            !.execs = f.execs, !.user = f.user,
                            !.exitCode = f.exitCode, !.port = f.port,
                            !.marked = f.marked,
                            !.calls = f.calls,
                            !.req = f.req, !.api_key = f.api_key,
                            !.user_id = f.user_id, !.listed = f.listed]

\* request tasks are interchangeable: a new request takes the first task
\* that is not running a handler
Idle(t) == tasks[t].pc \in {"idle", "done"}
Free(t) == Idle(t) /\ \A u \in Tasks : u < t => ~Idle(u)

\* create_sandbox, lines 75-86: generate the id, build the record with status
\* CREATING, store.save.  `maxIds` bounds the ids generated in one run.
CreateBeginUnsaved(t, maxIds) ==
    /\ CanStep(t)
    /\ Free(t)
    /\ nextId <= maxIds
    /\ tasks' = Frame(t, [IdleTask EXCEPT !.op = "create", !.pc = "c_run",
                                          !.sid = NewSandboxId, !.sb = NewSandbox,
                                          !.saved = TRUE])
    /\ nextId' = nextId + 1
    /\ cur' = AfterStoreCall(t)
    /\ UNCHANGED <<backend, store, containers, nextCid, now, client, s3, fs, session, browser>>

\* create_sandbox for `user_id`; the storage bucket is left to the caller
CreateFor(t, maxIds, user_id) ==
    /\ CanStep(t)
    /\ Free(t)
    /\ nextId <= maxIds
    /\ LET sid == NewSandboxId
       IN /\ store' = Save(store, sid, NewSandboxFor(user_id))
          /\ tasks' = Frame(t, [IdleTask EXCEPT !.op = "create", !.pc = "c_run",
                                               !.sid = sid,
                                               !.sb = NewSandboxFor(user_id),
                                               !.saved = TRUE])
    /\ nextId' = nextId + 1
    /\ cur' = AfterStoreCall(t)
    /\ UNCHANGED <<backend, containers, nextCid, now, client, fs, session, browser>>

CreateBegin(t, maxIds) == CreateFor(t, maxIds, DefaultUser) /\ UNCHANGED s3

CreateStart(t) == CreateBegin(t, MaxSandboxes)

\* lines 90-140 and 148-150: containers.run, container_id / STARTING,
\* reload and port read-back, then await store.save; any exception goes to
\* the except clause, which sets FAILED and awaits store.save
CreateRun(t) ==
    /\ CanStep(t)
    /\ tasks[t].pc = "c_run"
    /\ \E outcome \in {"run_error", "port_error", "no_port", "ok"} :
         LET f == tasks[t]
             o == Obj(t)
             c == [cid |-> nextCid, name |-> f.sid, status |-> "running",
                   ready |-> FALSE]
             started == [o EXCEPT !.container_id = c.cid, !.status = "starting"]
             obj == CASE outcome = "run_error" -> [o EXCEPT !.status = "failed"]
                      [] outcome = "port_error" -> [started EXCEPT !.status = "failed"]
                      [] outcome = "no_port" -> started
                      [] OTHER -> [started EXCEPT !.ssh_port = HostPort(c.cid)]
         IN /\ IF outcome = "run_error"
               THEN UNCHANGED <<containers, nextCid>>
               ELSE /\ containers' = containers \cup {c}
                    /\ nextCid' = nextCid + 1
            /\ store' = StoreAfterWrite(t, obj)
            /\ tasks' = Frame(t, [f EXCEPT
                    !.sb = obj,
                    !.cid = IF outcome = "run_error" THEN Null ELSE c.cid,
                    !.synced = (outcome = "run_error"),
                    !.cause = IF outcome \in {"run_error", "port_error"}
                              THEN outcome ELSE "none",
                    !.pc = IF outcome \in {"run_error", "port_error"}
                           THEN "c_savefail" ELSE "c_save2"])
    /\ cur' = AfterStoreCall(t)
    /\ UNCHANGED <<backend, nextId, now, client, s3, fs, session, browser>>

\* line 140: the second save takes effect (STARTING, container_id)
CreateSave2(t) ==
    /\ CanStep(t)
    /\ tasks[t].pc = "c_save2"
    /\ store' = Save(store, tasks[t].sid, Obj(t))
    /\ tasks' = Frame(t, [tasks[t] EXCEPT !.pc = "c_poll", !.synced = TRUE,
                                          !.elapsed = 0])
    /\ cur' = AfterStoreCall(t)
    /\ UNCHANGED <<backend, containers, nextId, nextCid, now, client, s3, fs, session, browser>>

PollVerdictReadyFirst(t, fault) ==
    LET f == tasks[t]
        found == Named(f.sid)
        c == CHOOSE x \in found : TRUE
    IN  IF f.elapsed >= ReadyTimeout THEN "timeout"
        ELSE IF fault = "other" THEN "poll_exception"
        ELSE IF fault = "api_error" THEN "probe_error"
        ELSE IF found = {} THEN "not_found"
        ELSE IF c.ready THEN "ready"
        ELSE IF c.status = "exited" THEN "exited"
        ELSE "sleep"

PollVerdictEarlyDeadline(t, fault) ==
    LET f == tasks[t]
        found == Named(f.sid)
        c == CHOOSE x \in found : TRUE
    IN  IF f.elapsed >= ReadyTimeout - PollInterval THEN "timeout"
        ELSE IF fault = "other" THEN "poll_exception"
        ELSE IF fault = "api_error" THEN "probe_error"
        ELSE IF found = {} THEN "not_found"
        ELSE IF c.status = "exited" THEN "exited"
        ELSE IF c.ready THEN "ready"
        ELSE "sleep"

\* _wait_for_ready, the outcome of one turn of `while elapsed < timeout`
PollVerdict(t, fault) ==
    LET f == tasks[t]
        found == Named(f.sid)
        c == CHOOSE x \in found : TRUE
    IN  IF f.elapsed >= ReadyTimeout THEN "timeout"
        ELSE IF fault = "other" THEN "poll_exception"
        ELSE IF fault = "api_error" THEN "probe_error"
        ELSE IF found = {} THEN "not_found"
        ELSE IF c.status = "exited" THEN "exited"
        ELSE IF c.ready THEN "ready"
        ELSE "sleep"

\* _wait_for_ready, lines 161-183: one turn of the loop; it ends in
\* asyncio.sleep (the task yields) or in the status the poll returns.
\* `maxSleeps` bounds the turns that end in a sleep.
Poll(t, maxSleeps) ==
    /\ CanStep(t)
    /\ tasks[t].pc = "c_poll"
    /\ \E fault \in {"none", "api_error", "other"} :
         LET f == tasks[t]
             v == PollVerdict(t, fault)
             obj == [Obj(t) EXCEPT !.status = IF v = "ready" THEN "ready" ELSE "failed"]
         IN IF v = "sleep"
            THEN /\ f.elapsed < maxSleeps * PollInterval
                 /\ tasks' = Frame(t, [f EXCEPT !.elapsed = f.elapsed + PollInterval])
                 /\ cur' = NoTask
                 /\ UNCHANGED store
            ELSE /\ store' = StoreAfterWrite(t, obj)
                 /\ tasks' = Frame(t, [f EXCEPT
                        !.sb = obj,
                        !.cause = IF v = "ready" THEN "none" ELSE v,
                        !.pc = IF v = "poll_exception" THEN "c_savefail"
                               ELSE "c_save3"])
                 /\ cur' = AfterStoreCall(t)
    /\ UNCHANGED <<backend, containers, nextId, nextCid, now, client, s3, fs, session, browser>>

CreatePoll(t) == Poll(t, MaxPollSleeps)

CreateSave3NoWrite(t) ==
    /\ CanStep(t)
    /\ tasks[t].pc = "c_save3"
    /\ tasks' = Frame(t, [tasks[t] EXCEPT !.pc = "c_ret", !.synced = TRUE])
    /\ cur' = AfterStoreCall(t)
    /\ UNCHANGED <<backend, store, containers, nextId, nextCid, now, client, s3, fs, session, browser>>

\* line 143: the save after the readiness poll takes effect
CreateSave3(t) ==
    /\ CanStep(t)
    /\ tasks[t].pc = "c_save3"
    /\ store' = Save(store, tasks[t].sid, Obj(t))
    /\ tasks' = Frame(t, [tasks[t] EXCEPT !.pc = "c_ret", !.synced = TRUE])
    /\ cur' = AfterStoreCall(t)
    /\ UNCHANGED <<backend, containers, nextId, nextCid, now, client, s3, fs, session, browser>>

\* line 146: return sandbox
CreateReturn(t) ==
    /\ CanStep(t)
    /\ tasks[t].pc = "c_ret"
    /\ tasks' = Frame(t, Done([tasks[t] EXCEPT !.ret = "record",
                                                !.retRec = Obj(t)]))
    /\ cur' = NoTask
    /\ UNCHANGED <<backend, store, containers, nextId, nextCid, now, client, s3, fs, session, browser>>

\* line 150: the save of the except clause takes effect (FAILED)
CreateSaveFail(t) ==
    /\ CanStep(t)
    /\ tasks[t].pc = "c_savefail"
    /\ store' = Save(store, tasks[t].sid, Obj(t))
    /\ tasks' = Frame(t, [tasks[t] EXCEPT !.pc = "c_raise", !.synced = TRUE])
    /\ cur' = AfterStoreCall(t)
    /\ UNCHANGED <<backend, containers, nextId, nextCid, now, client, s3, fs, session, browser>>

\* line 152: raise RuntimeError
CreateRaise(t) ==
    /\ CanStep(t)
    /\ tasks[t].pc = "c_raise"
    /\ tasks' = Frame(t, Done([tasks[t] EXCEPT !.ret = "RuntimeError"]))
    /\ cur' = NoTask
    /\ UNCHANGED <<backend, store, containers, nextId, nextCid, now, client, s3, fs, session, browser>>

(* ----------------------------- destroy -------------------------------- *)
DestroyFaults == {"none", "get_api", "get_other", "stop_api", "stop_other",
                  "remove_api", "remove_other"}

\* destroy_sandbox, lines 264-269: store.get, return False for an unknown id,
\* else store.update_status(SHUTTING_DOWN).  Only the existence of the record
\* is read, and records are never deleted, so the read and the update are one
\* step.
DestroyStart(t, sid, graceful, reason) ==
    /\ CanStep(t)
    /\ Free(t)
    /\ IF sid \notin DOMAIN store
       THEN /\ tasks' = Frame(t, [IdleTask EXCEPT !.op = "destroy", !.pc = "done",
                                                 !.sid = sid, !.ret = "false"])
            /\ cur' = NoTask
            /\ UNCHANGED store
       ELSE /\ store' = UpdateStatus(store, sid, "shutting_down")
            /\ tasks' = Frame(t, [IdleTask EXCEPT !.op = "destroy", !.pc = "d_docker",
                                                 !.sid = sid, !.graceful = graceful,
                                                 !.reason = reason])
            /\ cur' = AfterStoreCall(t)
    /\ UNCHANGED <<backend, containers, nextId, nextCid, now, client, s3, fs, session, browser>>

\* what the runtime calls of lines 275-282 end in: containers.get, then
\* stop (graceful) or kill, then remove(force=True)
DestroyVerdict(t, fault) ==
    LET f == tasks[t]
        found == Named(f.sid)
        c == CHOOSE x \in found : TRUE
    IN  IF fault = "get_api" THEN "api_error"
        ELSE IF fault = "get_other" THEN "exception"
        ELSE IF found = {} THEN "not_found"
        ELSE IF fault = "stop_api" THEN "api_error"
        ELSE IF fault = "stop_other" THEN "exception"
        ELSE IF ~f.graceful /\ c.status # "running" THEN "api_error"  \* kill: 409
        ELSE IF fault = "remove_api" THEN "stopped_api_error"
        ELSE IF fault = "remove_other" THEN "stopped_exception"
        ELSE "removed"

DestroyCallsKillFirst(t, fault) ==
    LET f == tasks[t]
        found == Named(f.sid)
        c == CHOOSE x \in found : TRUE
    IN  IF fault \in {"get_api", "get_other"} \/ found = {} THEN <<"get">>
        ELSE IF fault \in {"stop_api", "stop_other"} \/ c.status # "running"
        THEN <<"get", "kill">>
        ELSE <<"get", "kill", "remove">>

\* the runtime calls destroy_sandbox makes, lines 275-282, up to the one that
\* raises
DestroyCalls(t, fault) ==
    LET f == tasks[t]
        found == Named(f.sid)
        c == CHOOSE x \in found : TRUE
        first == IF f.graceful THEN "stop" ELSE "kill"
    IN  IF fault \in {"get_api", "get_other"} \/ found = {} THEN <<"get">>
        ELSE IF fault \in {"stop_api", "stop_other"} THEN <<"get", first>>
        ELSE IF ~f.graceful /\ c.status # "running" THEN <<"get", "kill">>
        ELSE <<"get", first, "remove">>

\* lines 273-297: the runtime calls, then the store call of the branch taken
DestroyDocker(t) ==
    /\ CanStep(t)
    /\ tasks[t].pc = "d_docker"
    /\ \E fault \in DestroyFaults :
         LET f == [tasks[t] EXCEPT !.calls = DestroyCalls(t, fault)]
             v == DestroyVerdict(t, fault)
             mine == Named(f.sid)
             c == CHOOSE x \in mine : TRUE
         IN /\ containers' =
                 CASE v = "removed" -> containers \ {c}
                   [] v \in {"stopped_api_error", "stopped_exception"} ->
                        (containers \ {c}) \cup {[c EXCEPT !.status = "exited"]}
                   [] OTHER -> containers
            /\ tasks' = Frame(t,
                    CASE v \in {"removed", "not_found"} ->
                           [f EXCEPT !.pc = "d_mark", !.cause = v,
                                     !.synced = (v # "removed")]
                      [] v \in {"api_error", "stopped_api_error"} ->
                           [f EXCEPT !.pc = "d_fail", !.cause = v]
                      [] OTHER ->
                           Done([f EXCEPT !.cause = v, !.ret = "exception"]))
            /\ cur' = IF v \in {"exception", "stopped_exception"}
                      THEN NoTask ELSE AfterStoreCall(t)
    /\ UNCHANGED <<backend, store, nextId, nextCid, now, client, s3, fs, session, browser>>

DestroyMarkAsFailed(t) ==
    /\ CanStep(t)
    /\ tasks[t].pc = "d_mark"
    /\ store' = UpdateStatus(store, tasks[t].sid, "failed")
    /\ tasks' = Frame(t, [tasks[t] EXCEPT !.pc = "d_ret", !.ret = "false",
                                          !.synced = TRUE])
    /\ cur' = AfterStoreCall(t)
    /\ UNCHANGED <<backend, containers, nextId, nextCid, now, client, s3, fs, session, browser>>

\* lines 284 and 290: store.mark_stopped takes effect
DestroyMark(t) ==
    /\ CanStep(t)
    /\ tasks[t].pc = "d_mark"
    /\ store' = MarkStopped(store, tasks[t].sid, tasks[t].reason)
    /\ tasks' = Frame(t, [tasks[t] EXCEPT !.pc = "d_ret", !.ret = "true",
                                          !.synced = TRUE])
    /\ cur' = AfterStoreCall(t)
    /\ UNCHANGED <<backend, containers, nextId, nextCid, now, client, s3, fs, session, browser>>

DestroyFailRetry(t) ==
    /\ CanStep(t)
    /\ tasks[t].pc = "d_fail"
    /\ tasks' = Frame(t, [tasks[t] EXCEPT !.pc = "d_docker", !.cause = "none"])
    /\ cur' = t
    /\ UNCHANGED <<backend, store, containers, nextId, nextCid, now, client, s3, fs, session, browser>>

\* line 295: store.update_status(FAILED) takes effect
DestroyFail(t) ==
    /\ CanStep(t)
    /\ tasks[t].pc = "d_fail"
    /\ store' = UpdateStatus(store, tasks[t].sid, "failed")
    /\ tasks' = Frame(t, [tasks[t] EXCEPT !.pc = "d_ret", !.ret = "false"])
    /\ cur' = AfterStoreCall(t)
    /\ UNCHANGED <<backend, containers, nextId, nextCid, now, client, s3, fs, session, browser>>

\* lines 287, 292 and 297: return True / False
DestroyReturn(t) ==
    /\ CanStep(t)
    /\ tasks[t].pc = "d_ret"
    /\ tasks' = Frame(t, Done(tasks[t]))
    /\ cur' = NoTask
    /\ UNCHANGED <<backend, store, containers, nextId, nextCid, now, client, s3, fs, session, browser>>

\* DELETE /sandboxes/{id}, routes/sandboxes.py lines 152-163: 404 for an
\* unknown id, 204 when destroy_sandbox returned True, else 500 (an exception
\* that escapes the handler is a 500 as well)
DeleteStatus(known, ret) ==
    IF ~known THEN 404 ELSE IF ret = "true" THEN 204 ELSE 500

\* POST /sandboxes/{id}/complete and /error, routes/sandboxes.py lines
\* 175-200: 404 for an unknown id; else destroy_sandbox(graceful=True) is
\* awaited, its result is dropped and 200 is answered (500 when it raised)
CallbackReasons == {"graceful_shutdown", "error"}
CallbackStatus(known, ret) ==
    IF ~known THEN 404 ELSE IF ret \in {"true", "false"} THEN 200 ELSE 500

(* ---------------------------- heartbeat ------------------------------- *)
HeartbeatAlwaysTrue(t, sid) ==
    /\ CanStep(t)
    /\ Free(t)
    /\ store' = UpdateHeartbeat(store, sid)
    /\ tasks' = Frame(t, [IdleTask EXCEPT !.op = "heartbeat", !.pc = "done",
                                         !.sid = sid, !.ret = "true"])
    /\ cur' = NoTask
    /\ UNCHANGED <<backend, containers, nextId, nextCid, now, client, s3, fs, session, browser>>

\* heartbeat, lines 300-307: store.get, False for an unknown id, else
\* store.update_heartbeat and True (one step: only existence is read)
Heartbeat(t, sid) ==
    /\ CanStep(t)
    /\ Free(t)
    /\ store' = UpdateHeartbeat(store, sid)
    /\ tasks' = Frame(t, [IdleTask EXCEPT !.op = "heartbeat", !.pc = "done",
                                         !.sid = sid,
                                         !.ret = IF sid \in DOMAIN store
                                                 THEN "true" ELSE "false"])
    /\ cur' = NoTask
    /\ UNCHANGED <<backend, containers, nextId, nextCid, now, client, s3, fs, session, browser>>

(* -------------------------------- get --------------------------------- *)
\* a destroy of sid has returned True and its frame is still at hand
DestroyReturnedTrue(sid) ==
    \E u \in Tasks : /\ tasks[u].op = "destroy" /\ tasks[u].pc = "done"
                     /\ tasks[u].sid = sid /\ tasks[u].ret = "true"

\* get_sandbox, lines 186-189: store.get, None for an unknown id
Get(t, sid) ==
    /\ CanStep(t)
    /\ Free(t)
    /\ tasks' = Frame(t, [IdleTask EXCEPT
            !.op = "get", !.pc = "done", !.sid = sid,
            !.ret = IF sid \in DOMAIN store THEN "record" ELSE "none",
            !.retRec = IF sid \in DOMAIN store THEN Proj(store[sid]) ELSE NoSandbox,
            !.afterDestroy = DestroyReturnedTrue(sid)])
    /\ cur' = NoTask
    /\ UNCHANGED <<backend, store, containers, nextId, nextCid, now, client, s3, fs, session, browser>>

(* ------------------------------- exec --------------------------------- *)
\* a command is read only through len(command)
CommandLengths == {1, MaxCommandLength, MaxCommandLength + 1}

TooLongFromLimit(len) == len >= MaxCommandLength

\* line 218: len(command) > settings.max_command_length
TooLong(len) == len > MaxCommandLength

\* exec_in_sandbox, lines 212-221: store.get; ValueError when there is no
\* record or the record has no container_id, then ValueError when the
\* command is too long
ExecBegin(t, sid, len) ==
    /\ CanStep(t)
    /\ Free(t)
    /\ LET known == sid \in DOMAIN store
           begun == [IdleTask EXCEPT
                        !.op = "exec", !.sid = sid, !.cmdLen = len,
                        !.stoppedAtBegin = (known /\ store[sid].status = "stopped")]
       IN IF ~known \/ store[sid].container_id = Null
          THEN /\ tasks' = Frame(t, [begun EXCEPT !.pc = "done", !.ret = "ValueError",
                                                  !.cause = "no_container"])
               /\ cur' = NoTask
          ELSE IF TooLong(len)
          THEN /\ tasks' = Frame(t, [begun EXCEPT !.pc = "done", !.ret = "ValueError",
                                                  !.cause = "too_long"])
               /\ cur' = NoTask
          ELSE /\ tasks' = Frame(t, [begun EXCEPT !.pc = "e_run",
                                                  !.sb = Proj(store[sid])])
               /\ cur' = AfterStoreCall(t)
    /\ UNCHANGED <<backend, store, containers, nextId, nextCid, now, client, s3, fs, session, browser>>

ExecStart(t, sid) == \E len \in CommandLengths : ExecBegin(t, sid, len)

ExecVerdictUnchecked(t, fault) ==
    LET found == Named(tasks[t].sid)
    IN  IF fault = "get_api" THEN "api_error"
        ELSE IF found = {} THEN "not_found"
        ELSE IF fault = "exec_api" THEN "api_error"
        ELSE "ran"

\* lines 223-251: containers.get, reload, the status check, exec_run
ExecVerdict(t, fault) ==
    LET found == Named(tasks[t].sid)
        c == CHOOSE x \in found : TRUE
    IN  IF fault = "get_api" THEN "api_error"
        ELSE IF found = {} THEN "not_found"
        ELSE IF c.status # "running" THEN "not_running"
        ELSE IF fault = "exec_api" THEN "api_error"
        ELSE "ran"

ExecRun(t) ==
    /\ CanStep(t)
    /\ tasks[t].pc = "e_run"
    /\ \E fault \in {"none", "get_api", "exec_api"} :
         LET v == ExecVerdict(t, fault)
         IN tasks' = Frame(t, Done([tasks[t] EXCEPT
                !.cause = v,
                !.ranCmd = (v = "ran"),
                !.ret = IF v = "ran" THEN "result" ELSE "RuntimeError"]))
    /\ cur' = NoTask
    /\ UNCHANGED <<backend, store, containers, nextId, nextCid, now, client, s3, fs, session, browser>>

(* --------------------------- user access ------------------------------ *)
\* len(inject_cmd) with an OpenSSH Ed25519 public key (80 characters)
InjectCmdLength == 264
\* "port": sandbox.ssh_port or 22
DefaultSshPort == 22
\* exit codes of the injected shell command
ExitCodes == {0, 1}

\* generate_user_access, lines 319-322: store.get, ValueError for an unknown
\* id; the keypair is generated in memory
AccessStart(t, sid) ==
    /\ CanStep(t)
    /\ Free(t)
    /\ LET begun == [IdleTask EXCEPT !.op = "access", !.sid = sid]
       IN IF sid \notin DOMAIN store
          THEN /\ tasks' = Frame(t, [begun EXCEPT !.pc = "done", !.ret = "ValueError",
                                                  !.cause = "not_found"])
               /\ cur' = NoTask
          ELSE /\ tasks' = Frame(t, [begun EXCEPT !.pc = "a_exec", !.saved = TRUE,
                                                  !.sb = Proj(store[sid])])
               /\ cur' = AfterStoreCall(t)
    /\ UNCHANGED <<backend, store, containers, nextId, nextCid, now, client, s3, fs, session, browser>>

\* line 341 entering exec_in_sandbox, lines 212-221: the second store.get,
\* the container_id check and the length check of inject_cmd
AccessExecBegin(t) ==
    /\ CanStep(t)
    /\ tasks[t].pc = "a_exec"
    /\ LET f == [tasks[t] EXCEPT !.cmdLen = InjectCmdLength]
       IN IF f.sid \notin DOMAIN store \/ store[f.sid].container_id = Null
          THEN /\ tasks' = Frame(t, Done([f EXCEPT !.ret = "ValueError",
                                                   !.cause = "no_container"]))
               /\ cur' = NoTask
          ELSE IF TooLong(InjectCmdLength)
          THEN /\ tasks' = Frame(t, Done([f EXCEPT !.ret = "ValueError",
                                                   !.cause = "too_long"]))
               /\ cur' = NoTask
          ELSE /\ tasks' = Frame(t, [f EXCEPT !.pc = "a_run"])
               /\ cur' = AfterStoreCall(t)
    /\ UNCHANGED <<backend, store, containers, nextId, nextCid, now, client, s3, fs, session, browser>>

AccessRunAsAgent(t) ==
    /\ CanStep(t)
    /\ tasks[t].pc = "a_run"
    /\ \E fault \in {"none", "get_api", "exec_api"}, code \in ExitCodes :
         LET v == ExecVerdict(t, fault)
             ssh_port == Obj(t).ssh_port
         IN tasks' = Frame(t, Done(
                IF v = "ran"
                THEN [tasks[t] EXCEPT
                        !.cause = v, !.ranCmd = TRUE,
                        !.execs = @ + 1, !.user = "agent", !.exitCode = code,
                        !.ret = "credentials",
                        !.port = IF ssh_port # Null THEN ssh_port ELSE DefaultSshPort]
                ELSE [tasks[t] EXCEPT !.cause = v, !.ret = "RuntimeError"]))
    /\ cur' = NoTask
    /\ UNCHANGED <<backend, store, containers, nextId, nextCid, now, client, s3, fs, session, browser>>

\* exec_in_sandbox lines 223-251 with user="root", then lines 343-350: the
\* exit code is discarded and the credentials are returned
AccessRun(t) ==
    /\ CanStep(t)
    /\ tasks[t].pc = "a_run"
    /\ \E fault \in {"none", "get_api", "exec_api"}, code \in ExitCodes :
         LET v == ExecVerdict(t, fault)
             ssh_port == Obj(t).ssh_port
         IN tasks' = Frame(t, Done(
                IF v = "ran"
                THEN [tasks[t] EXCEPT
                        !.cause = v, !.ranCmd = TRUE,
                        !.execs = @ + 1, !.user = "root", !.exitCode = code,
                        !.ret = "credentials",
                        !.port = IF ssh_port # Null THEN ssh_port ELSE DefaultSshPort]
                ELSE [tasks[t] EXCEPT !.cause = v, !.ret = "RuntimeError"]))
    /\ cur' = NoTask
    /\ UNCHANGED <<backend, store, containers, nextId, nextCid, now, client, s3, fs, session, browser>>

(* ------------------------ reconcile and expiry ------------------------- *)
\* ttl_seconds: int = 7200
TtlSeconds == 7200
\* the expires_at column is filled by a trigger of the sandbox_instances
\* table: created_at + ttl_seconds
ExpiresAt(row) == row.created_at + TtlSeconds

ReconcileStatusesFromDocstring == {"ready", "running"}

ReconcileStatusesAll ==
    {"creating", "starting", "ready", "running", "shutting_down",
     "stopped", "failed", "expired"}

\* WHERE status IN ('ready', 'running', 'starting')
ReconcileStatuses == {"ready", "running", "starting"}

\* SELECT sandbox_id, container_id FROM sandbox_instances WHERE status IN ...
ReconcileRows(st) ==
    {[sid |-> sid, container_id |-> st[sid].container_id] :
        sid \in {i \in DOMAIN st : st[i].status \in ReconcileStatuses}}

\* if container_id and container_id not in running_container_ids
Vanished(row, running_container_ids) ==
    row.container_id # Null /\ row.container_id \notin running_container_ids

\* UPDATE ... SET status = 'stopped', stopped_at = NOW(),
\* stop_reason = 'graceful_shutdown' WHERE sandbox_id = $1
ReconcileUpdate(st, sid, time) ==
    IF sid \notin DOMAIN st THEN st
    ELSE [st EXCEPT ![sid].status = "stopped", ![sid].stopped_at = time,
                    ![sid].stop_reason = "graceful_shutdown"]

\* the registry after a reconcile pass that no other store call interleaves
ReconcileResult(st, running_container_ids, time) ==
    LET hit == {r.sid : r \in {x \in ReconcileRows(st) :
                                  Vanished(x, running_container_ids)}}
    IN [i \in DOMAIN st |->
          IF i \in hit THEN ReconcileUpdate(st, i, time)[i] ELSE st[i]]

\* container ids a caller of reconcile can pass
ContainerIds == 1..MaxSandboxes

\* reconcile, lines 236-246: InMemorySandboxStore has no such method; the
\* Postgres store fetches the active rows
ReconcileStart(t, running_container_ids) ==
    /\ CanStep(t)
    /\ Free(t)
    /\ LET begun == [IdleTask EXCEPT !.op = "reconcile",
                                     !.live = running_container_ids]
       IN IF backend = "memory"
          THEN tasks' = Frame(t, [begun EXCEPT !.pc = "done",
                                               !.ret = "AttributeError"])
          ELSE tasks' = Frame(t, [begun EXCEPT !.pc = "r_loop",
                                               !.rows = ReconcileRows(store)])
    /\ cur' = NoTask
    /\ UNCHANGED <<backend, store, containers, nextId, nextCid, now, client, s3, fs, session, browser>>

\* lines 248-264: the loop runs to the next row whose container is gone and
\* awaits its UPDATE, or runs out of rows and returns
ReconcileStep(t) ==
    /\ CanStep(t)
    /\ tasks[t].pc = "r_loop"
    /\ LET f == tasks[t]
           todo == {r \in f.rows : Vanished(r, f.live) /\ r.sid \notin f.marked}
       IN IF todo = {}
          THEN /\ tasks' = Frame(t, Done([f EXCEPT !.ret = "none"]))
               /\ store' = store
          ELSE \E r \in todo :
                 /\ store' = ReconcileUpdate(store, r.sid, now)
                 /\ tasks' = Frame(t, [f EXCEPT !.marked = @ \cup {r.sid}])
    /\ cur' = NoTask
    /\ UNCHANGED <<backend, containers, nextId, nextCid, now, client, s3, fs, session, browser>>

\* WHERE status IN ('ready', 'running')
ExpireStatuses == {"ready", "running"}

\* ... AND expires_at IS NOT NULL AND expires_at < NOW()
ExpireRows(st, time) ==
    {sid \in DOMAIN st : /\ st[sid].status \in ExpireStatuses
                         /\ st[sid].created_at # NoTime
                         /\ ExpiresAt(st[sid]) < time}

\* UPDATE ... SET status = 'expired', stopped_at = NOW(), stop_reason = 'expired'
ExpireResult(st, time) ==
    [i \in DOMAIN st |->
        IF i \in ExpireRows(st, time)
        THEN [st[i] EXCEPT !.status = "expired", !.stopped_at = time,
                           !.stop_reason = "expired"]
        ELSE st[i]]

\* expire_stale, lines 266-281: one UPDATE ... RETURNING sandbox_id
ExpireStale(t) ==
    /\ CanStep(t)
    /\ Free(t)
    /\ LET begun == [IdleTask EXCEPT !.op = "expire", !.pc = "done"]
       IN IF backend = "memory"
          THEN /\ tasks' = Frame(t, [begun EXCEPT !.ret = "AttributeError"])
               /\ store' = store
          ELSE /\ tasks' = Frame(t, [begun EXCEPT !.ret = "ids",
                                        !.marked = ExpireRows(store, now)])
               /\ store' = ExpireResult(store, now)
    /\ cur' = NoTask
    /\ UNCHANGED <<backend, containers, nextId, nextCid, now, client, s3, fs, session, browser>>

\* how far past the first expiry the clock runs
MaxLateness == 1

\* the wall clock jumps to a session's expiry or past it
TickSizes == {TtlSeconds, TtlSeconds + MaxLateness}

Tick(d) ==
    /\ now + d <= TtlSeconds + MaxLateness
    /\ now' = now + d
    /\ UNCHANGED <<backend, store, containers, tasks, cur, nextId, nextCid, client, s3, fs, session, browser>>

(* --------------------------- agent client ----------------------------- *)
\* MAX_RETRIES = 3
MaxRetries == 3
\* RETRY_BACKOFF = 0.5 seconds, in milliseconds
RetryBackoff == 500

\* heartbeat, signal_complete, signal_error
ClientOps == {"heartbeat", "complete", "error"}
\* status codes of a response; the client returns any response it receives
ResponseCodes == {200, 404, 500}
\* except (httpx.ConnectError, httpx.TimeoutException)
Retryable == {"ConnectError", "TimeoutException"}

\* wait = RETRY_BACKOFF * (2 ** (attempt - 1))
Backoff(attempt) == RetryBackoff * (2 ^ (attempt - 1))

\* what the caller of _request_with_retry makes of its end: heartbeat returns
\* resp.status_code == 200 and False on any exception; signal_complete and
\* signal_error return None or let the exception through
ClientDone(c, status, error) ==
    [c EXCEPT !.pc = "done", !.status = status, !.error = error,
              !.result = IF c.op = "heartbeat"
                         THEN IF error = "none" /\ status = 200 THEN "true"
                              ELSE "false"
                         ELSE IF error = "none" THEN "returned" ELSE error]

\* the first attempt of a callback
ClientCall(op) ==
    /\ client.pc \in {"idle", "done"}
    /\ client' = [IdleClient EXCEPT !.op = op, !.pc = "try", !.attempt = 1]
    /\ UNCHANGED <<backend, store, containers, tasks, cur, nextId, nextCid, now, s3, fs, session, browser>>

ClientAttemptSleepsAfterLast ==
    /\ client.pc = "try"
    /\ \/ \E code \in ResponseCodes : client' = ClientDone(client, code, "none")
       \/ \E e \in Retryable :
            LET c == [client EXCEPT !.last_error = e,
                                    !.waits = Append(@, Backoff(client.attempt))]
            IN IF client.attempt < MaxRetries
               THEN client' = [c EXCEPT !.pc = "sleep"]
               ELSE client' = ClientDone(c, 0, "RuntimeError")
       \/ client' = ClientDone(client, 0, "HTTPError")
    /\ UNCHANGED <<backend, store, containers, tasks, cur, nextId, nextCid, now, s3, fs, session, browser>>

\* _request_with_retry, lines 77-99: one pass of the loop body up to the
\* return, the sleep or the raise
ClientAttempt ==
    /\ client.pc = "try"
    /\ \/ \E code \in ResponseCodes : client' = ClientDone(client, code, "none")
       \/ \E e \in Retryable :
            IF client.attempt < MaxRetries
            THEN client' = [client EXCEPT !.last_error = e, !.pc = "sleep",
                                          !.waits = Append(@, Backoff(client.attempt))]
            ELSE client' = ClientDone([client EXCEPT !.last_error = e], 0,
                                      "RuntimeError")
       \/ client' = ClientDone(client, 0, "HTTPError")
    /\ UNCHANGED <<backend, store, containers, tasks, cur, nextId, nextCid, now, s3, fs, session, browser>>

\* asyncio.sleep(wait) returns and the loop takes the next attempt
ClientWake ==
    /\ client.pc = "sleep"
    /\ client' = [client EXCEPT !.pc = "try", !.attempt = @ + 1]
    /\ UNCHANGED <<backend, store, containers, tasks, cur, nextId, nextCid, now, s3, fs, session, browser>>

NextClient ==
    \/ \E op \in ClientOps : ClientCall(op)
    \/ ClientAttempt
    \/ ClientWake

SpecClient == Init /\ [][NextClient]_vars

(* ----------------------- API key middleware --------------------------- *)
\* _EXEMPT_PATHS
ExemptPaths == {"/health", "/docs", "/openapi.json", "/redoc"}
\* settings.api_key: empty (no authentication) or a key
ApiKeys == {"", "k1"}
Paths == {"/sandboxes", "/sandboxes/1/exec", "/health", "/"}
HeaderKeys == {"", "k1", "k2"}
\* Authorization header values: absent, "Bearer <key>", "Bearer ", "Basic <key>"
Authorizations ==
    {[scheme |-> "", key |-> ""]} \cup
    {[scheme |-> sch, key |-> k] : sch \in {"Bearer", "Basic"}, k \in HeaderKeys}
Requests == [path : Paths, x_api_key : HeaderKeys, authorization : Authorizations]

ExtractApiKeyHeaderOnly(req) == req.x_api_key

\* _extract_api_key: the X-API-Key header when it is not empty, else the rest
\* of an Authorization header that starts with "Bearer ", else None ("")
ExtractApiKey(req) ==
    IF req.x_api_key # "" THEN req.x_api_key
    ELSE IF req.authorization.scheme = "Bearer" THEN req.authorization.key
    ELSE ""

\* APIKeyMiddleware.dispatch: "handler" stands for call_next(request)
Dispatch(api_key, req) ==
    IF api_key = "" THEN "handler"
    ELSE IF req.path \in ExemptPaths THEN "handler"
    ELSE IF req.path = "/" THEN "handler"
    ELSE IF ExtractApiKey(req) = "" THEN "401"
    ELSE IF ExtractApiKey(req) # api_key THEN "403"
    ELSE "handler"

\* one request through the middleware
AuthRequest(t, api_key, req) ==
    /\ CanStep(t)
    /\ Free(t)
    /\ tasks' = Frame(t, [IdleTask EXCEPT !.op = "request", !.pc = "done",
                                         !.req = req, !.api_key = api_key,
                                         !.ret = Dispatch(api_key, req)])
    /\ cur' = NoTask
    /\ UNCHANGED <<backend, store, containers, nextId, nextCid, now, client, s3, fs, session, browser>>

NextAuth == \E t \in Tasks, k \in ApiKeys, req \in Requests : AuthRequest(t, k, req)

SpecAuth == Init /\ [][NextAuth]_vars

(* ------------------- routes: create and list -------------------------- *)
\* the prefix at which S3 answers ensure_user_storage with a ClientError
StorageFaults == {"none", "hot", "cold"}
\* keys users/{user_id}/hot/.keep and users/{user_id}/cold/.keep
UserPrefixes(user_id) == {<<user_id, "hot">>, <<user_id, "cold">>}
\* ensure_user_storage: the two prefixes in order, stopping at a ClientError
EnsureUserStorage(keys, user_id, fault) ==
    CASE fault = "hot" -> keys
      [] fault = "cold" -> keys \cup {<<user_id, "hot">>}
      [] OTHER -> keys \cup UserPrefixes(user_id)

\* a response that ends the request before create_sandbox is called
CreateRejected(t, user_id, code) ==
    /\ CanStep(t)
    /\ Free(t)
    /\ tasks' = Frame(t, [IdleTask EXCEPT !.op = "create_request", !.pc = "done",
                                         !.user_id = user_id, !.ret = code])
    /\ cur' = NoTask
    /\ UNCHANGED <<backend, store, containers, nextId, nextCid, now, client, fs, session, browser>>

CreateRequestUnvalidated(t, maxIds, user_id, fault) ==
    IF fault # "none"
    THEN CreateRejected(t, user_id, "500")
         /\ s3' = EnsureUserStorage(s3, user_id, fault)
    ELSE CreateFor(t, maxIds, user_id)
         /\ s3' = EnsureUserStorage(s3, user_id, fault)

\* POST /sandboxes: CreateSandboxRequest.validate_user_id on the body (422),
\* then the route: ensure_user_storage, create_sandbox
CreateRequest(t, maxIds, user_id, fault) ==
    IF Uuid(user_id) = NotUuid
    THEN CreateRejected(t, user_id, "422") /\ UNCHANGED s3
    ELSE IF fault # "none"
    THEN CreateRejected(t, user_id, "500")
         /\ s3' = EnsureUserStorage(s3, user_id, fault)
    ELSE CreateFor(t, maxIds, user_id)
         /\ s3' = EnsureUserStorage(s3, user_id, fault)

\* the orders in which the ids of S can be returned
Orders(S) == {q \in [1..Cardinality(S) -> S] :
                \A i, j \in 1..Cardinality(S) : i # j => q[i] # q[j]}
\* InMemorySandboxStore.list: the dict's values in insertion order, filtered
\* by s.user_id == user_id when user_id is truthy
MemList(st, user_id) ==
    LET S == IF user_id \notin {NoUser, ""}
             THEN {sid \in DOMAIN st : st[sid].user_id = user_id}
             ELSE DOMAIN st
    IN {q \in Orders(S) : \A i, j \in 1..Len(q) : i < j => q[i] < q[j]}
\* PostgresSandboxStore.list: WHERE user_id = UUID(user_id) when user_id is
\* truthy, ORDER BY created_at DESC
PgList(st, user_id) ==
    LET S == IF user_id \notin {NoUser, ""}
             THEN {sid \in DOMAIN st : st[sid].user_id = Uuid(user_id)}
             ELSE DOMAIN st
    IN {q \in Orders(S) :
          \A i, j \in 1..Len(q) : i < j => st[q[i]].created_at >= st[q[j]].created_at}

ListArgs == UserIds \cup {NoUser}

\* GET /sandboxes -> list_sandboxes -> store.list
ListSandboxes(t, user_id) ==
    /\ CanStep(t)
    /\ Free(t)
    /\ IF backend = "postgres" /\ user_id \notin {NoUser, ""} /\ Uuid(user_id) = NotUuid
       THEN tasks' = Frame(t, [IdleTask EXCEPT !.op = "list", !.pc = "done",
                                              !.user_id = user_id,
                                              !.ret = "ValueError"])
       ELSE \E q \in IF backend = "memory" THEN MemList(store, user_id)
                     ELSE PgList(store, user_id) :
              tasks' = Frame(t, [IdleTask EXCEPT !.op = "list", !.pc = "done",
                                                !.user_id = user_id,
                                                !.ret = "ok", !.listed = q])
    /\ cur' = NoTask
    /\ UNCHANGED <<backend, store, containers, nextId, nextCid, now, client, s3, fs, session, browser>>

(* ----------------------- tool session: files -------------------------- *)
Others == <<backend, store, containers, tasks, cur, nextId, nextCid, now, client, s3>>

IsPdf(p) == p = "/b.pdf"
\* content.count(old) for a one-character old
Count(c, old) == Cardinality({i \in 1..Len(c) : c[i] = old})
\* content.replace(old, new)
ReplaceAll(c, old, new) == [i \in 1..Len(c) |-> IF c[i] = old THEN new ELSE c[i]]
\* content.replace(old, new, 1)
ReplaceFirst(c, old, new) ==
    [i \in 1..Len(c) |->
        IF c[i] = old /\ \A j \in 1..(i - 1) : c[j] # old THEN new ELSE c[i]]

\* the ToolResult of a call and the session after it
Result(tool, p, type, fault) ==
    [tool |-> tool, path |-> p, type |-> type, fault |-> fault]
Called(ses, res) == [ses EXCEPT !.n = ses.n + 1, !.result = res]

\* what reading can meet: nothing, pdftotext missing, pdftotext failing
ReadFaults == {"none", "no_pdftotext", "pdf_failed"}
\* what writing the temporary file and os.replace can meet
WriteFaults == {"none", "PermissionError", "OSError"}

\* tool_read: mark_file_read comes before the file is opened
ToolRead(p, fault) ==
    /\ session.n < MaxToolCalls
    /\ IF ~fs[p].exists
       THEN session' = Called(session, Result("Read", p, "error", "missing"))
       ELSE LET type == IF IsPdf(p)
                        THEN IF fault = "none" THEN "ok" ELSE "error"
                        ELSE IF fs[p].readable THEN "ok" ELSE "error"
                marked == [session EXCEPT
                             !.files_read = @ \cup {p},
                             !.read_ok = IF type = "ok" THEN @ \cup {p} ELSE @]
            IN session' = Called(marked, Result("Read", p, type,
                                                IF IsPdf(p) THEN fault ELSE "none"))
    /\ UNCHANGED <<fs, browser>>
    /\ UNCHANGED Others

\* tool_write
ToolWrite(p, content, fault) ==
    /\ session.n < MaxToolCalls
    /\ IF fs[p].exists /\ p \notin session.files_read
       THEN /\ session' = Called(session, Result("Write", p, "error", "not_read"))
            /\ UNCHANGED fs
       ELSE IF fault # "none"
       THEN /\ session' = Called(session, Result("Write", p, "error", fault))
            /\ UNCHANGED fs
       ELSE /\ session' = Called(session, Result("Write", p, "ok", fault))
            /\ fs' = [fs EXCEPT ![p] = [exists |-> TRUE, content |-> content,
                                       readable |-> TRUE]]
    /\ UNCHANGED browser
    /\ UNCHANGED Others

\* one edit of tool_multi_edit's loop: the error it returns, or the content
EditStep(c, e) ==
    IF e.old_string = "" THEN [error |-> "empty", content |-> c]
    ELSE IF e.old_string = e.new_string THEN [error |-> "same", content |-> c]
    ELSE IF Count(c, e.old_string) = 0 THEN [error |-> "not_found", content |-> c]
    ELSE IF Count(c, e.old_string) > 1 /\ ~e.replace_all
    THEN [error |-> "ambiguous", content |-> c]
    ELSE [error |-> "none",
          content |-> IF e.replace_all
                      THEN ReplaceAll(c, e.old_string, e.new_string)
                      ELSE ReplaceFirst(c, e.old_string, e.new_string)]

RECURSIVE ApplyEdits(_, _)
ApplyEdits(c, edits) ==
    IF edits = << >> THEN [error |-> "none", content |-> c]
    ELSE LET r == EditStep(c, Head(edits))
         IN IF r.error # "none" THEN r ELSE ApplyEdits(r.content, Tail(edits))

\* tool_edit and tool_multi_edit after resolve_path: the checks, the read of
\* the file, the edits, the write.  tool_edit is the one-edit case; it has no
\* check for an empty old_string, which EditsOfOne never passes.
EditFile(tool, p, edits, fault) ==
    /\ session.n < MaxToolCalls
    /\ LET r == ApplyEdits(fs[p].content, edits)
           error == IF ~fs[p].exists THEN "missing"
                    ELSE IF p \notin session.files_read THEN "not_read"
                    ELSE IF tool = "Edit" /\ edits[1].old_string = edits[1].new_string
                    THEN "same"
                    ELSE IF ~fs[p].readable THEN "PermissionError"
                    ELSE IF r.error # "none" THEN r.error
                    ELSE IF fault # "none" THEN "OSError"
                    ELSE "none"
       IN IF error # "none"
          THEN /\ session' = Called(session, Result(tool, p, "error", error))
               /\ UNCHANGED fs
          ELSE /\ session' = Called(session, Result(tool, p, "ok", "none"))
               /\ fs' = [fs EXCEPT ![p] = [exists |-> TRUE, content |-> r.content,
                                          readable |-> TRUE]]
    /\ UNCHANGED browser
    /\ UNCHANGED Others

EditSpecs == [old_string : Chars, new_string : Chars, replace_all : BOOLEAN]
EditsOfOne == [1..1 -> EditSpecs]
MultiEditSpecs == [old_string : {"", "x"}, new_string : Chars, replace_all : {TRUE}]
EditsOfTwo == [1..2 -> MultiEditSpecs]

ToolEdit(p, edits, fault) == EditFile("Edit", p, edits, fault)
ToolMultiEdit(p, edits, fault) == EditFile("MultiEdit", p, edits, fault)

\* another process of the container (a shell command, the image build) puts a
\* file in place; a file the agent may not read can still be replaced by it
\* when the directory is the agent's
PlaceFile(p, readable) ==
    /\ ~fs[p].exists
    /\ fs' = [fs EXCEPT ![p] = [exists |-> TRUE, content |-> <<"x">>,
                               readable |-> readable]]
    /\ UNCHANGED <<session, browser>>
    /\ UNCHANGED Others

NextTools ==
    \/ \E p \in ToolPaths, fault \in ReadFaults : ToolRead(p, fault)
    \/ \E p \in ToolPaths, c \in Contents, fault \in WriteFaults : ToolWrite(p, c, fault)
    \/ \E p \in ToolPaths, e \in EditsOfOne, fault \in {"none", "OSError"} :
           ToolEdit(p, e, fault)
    \/ \E p \in ToolPaths, e \in EditsOfTwo, fault \in {"none", "OSError"} :
           ToolMultiEdit(p, e, fault)
    \/ \E p \in ToolPaths, r \in BOOLEAN : PlaceFile(p, r)

SpecTools == Init /\ [][NextTools]_vars

(* ----------------------- tool session: browser ------------------------ *)
NotBrowser == <<backend, store, containers, tasks, cur, nextId, nextCid, now,
                client, s3, fs, session>>

\* BrowserSession.is_running
IsRunning(b) == b.browser /\ b.connected
PageIds(b) == {b.pages[i] : i \in 1..Len(b.pages)}
\* _launch, and the two lines a new page takes in _launch and in new_tab:
\* _next_page_id, _pages[page_id] = page, _active_page_id = page_id
AddPage(b) == [b EXCEPT !.page_counter = @ + 1,
                        !.pages = Append(@, b.page_counter + 1),
                        !.active_page_id = b.page_counter + 1]
Launch(b) == AddPage([b EXCEPT !.browser = TRUE, !.connected = TRUE])
\* ensure_browser: the session after it and what it returns or raises
Ensured(b) ==
    LET l == IF IsRunning(b) THEN b ELSE Launch(b)
    IN [l EXCEPT !.result = IF l.active_page_id = NoPage THEN "AssertionError"
                            ELSE IF l.active_page_id \notin PageIds(l) THEN "KeyError"
                            ELSE "page"]

EnsureBrowser ==
    /\ IsRunning(browser) \/ browser.page_counter < MaxPages
    /\ browser' = Ensured(browser)
    /\ UNCHANGED NotBrowser

\* new_tab: _context is set by every launch, so it is None only before the first
NewTab ==
    /\ browser.page_counter + (IF IsRunning(browser) THEN 1 ELSE 2) <= MaxPages
    /\ LET e == IF IsRunning(browser) THEN browser ELSE Ensured(browser)
       IN browser' = IF ~IsRunning(browser) /\ e.result # "page" THEN e
                     ELSE [AddPage(e) EXCEPT !.result = "page"]
    /\ UNCHANGED NotBrowser

SwitchTab(page_id) ==
    /\ browser' = IF page_id \in PageIds(browser)
                  THEN [browser EXCEPT !.active_page_id = page_id, !.result = "page"]
                  ELSE [browser EXCEPT !.result = "None"]
    /\ UNCHANGED NotBrowser

\* close_tab; next(iter(self._pages)) is the first page left, in insertion order
CloseTab(page_id) ==
    /\ browser' =
         IF page_id \notin PageIds(browser)
         THEN [browser EXCEPT !.result = "False"]
         ELSE LET left == SelectSeq(browser.pages, LAMBDA q : q # page_id)
              IN [browser EXCEPT
                    !.pages = left,
                    !.active_page_id =
                        IF browser.active_page_id # page_id THEN @
                        ELSE IF left # << >> THEN left[1] ELSE NoPage,
                    !.result = "True"]
    /\ UNCHANGED NotBrowser

\* the Chromium process dies: Browser.is_connected() turns false
Disconnect ==
    /\ IsRunning(browser)
    /\ browser' = [browser EXCEPT !.connected = FALSE]
    /\ UNCHANGED NotBrowser

NextBrowser ==
    \/ EnsureBrowser
    \/ NewTab
    \/ \E page_id \in 1..MaxPages : SwitchTab(page_id)
    \/ \E page_id \in 1..MaxPages : CloseTab(page_id)
    \/ Disconnect

SpecBrowser == Init /\ [][NextBrowser]_vars

(* --------------------------- environment ------------------------------ *)
\* the container's entrypoint creates /tmp/.sandbox_ready
ContainerReady(c) ==
    /\ c \in containers /\ c.status = "running" /\ ~c.ready
    /\ containers' = (containers \ {c}) \cup {[c EXCEPT !.ready = TRUE]}
    /\ UNCHANGED <<backend, store, tasks, cur, nextId, nextCid, now, client, s3, fs, session, browser>>

\* the container's main process exits
ContainerExit(c) ==
    /\ c \in containers /\ c.status = "running"
    /\ containers' = (containers \ {c}) \cup {[c EXCEPT !.status = "exited"]}
    /\ UNCHANGED <<backend, store, tasks, cur, nextId, nextCid, now, client, s3, fs, session, browser>>

SandboxIds == 1..MaxSandboxes
\* the reason is passed through to the store unread; Spec uses the two the
\* DELETE and /complete routes pass
RouteReasons == {"user_requested", "graceful_shutdown"}

Next ==
    \/ \E t \in Tasks : CreateStart(t)
    \/ \E t \in Tasks : CreateRun(t)
    \/ \E t \in Tasks : CreateSave2(t)
    \/ \E t \in Tasks : CreatePoll(t)
    \/ \E t \in Tasks : CreateSave3(t)
    \/ \E t \in Tasks : CreateReturn(t)
    \/ \E t \in Tasks : CreateSaveFail(t)
    \/ \E t \in Tasks : CreateRaise(t)
    \/ \E t \in Tasks, sid \in SandboxIds, g \in BOOLEAN, r \in RouteReasons :
           DestroyStart(t, sid, g, r)
    \/ \E t \in Tasks : DestroyDocker(t)
    \/ \E t \in Tasks : DestroyMark(t)
    \/ \E t \in Tasks : DestroyFail(t)
    \/ \E t \in Tasks : DestroyReturn(t)
    \/ \E t \in Tasks, sid \in SandboxIds : Heartbeat(t, sid)
    \/ \E t \in Tasks, sid \in SandboxIds : Get(t, sid)
    \/ \E t \in Tasks, sid \in SandboxIds : ExecStart(t, sid)
    \/ \E t \in Tasks : ExecRun(t)
    \/ \E c \in containers : ContainerReady(c)
    \/ \E c \in containers : ContainerExit(c)

Spec == Init /\ [][Next]_vars

(* One creating request polled to its deadline, with a destroy beside it *)
CreatePollToDeadline(t) == Poll(t, ReadyTimeout \div PollInterval)

NextCreate ==
    \/ \E t \in Tasks : CreateStart(t)
    \/ \E t \in Tasks : CreateRun(t)
    \/ \E t \in Tasks : CreateSave2(t)
    \/ \E t \in Tasks : CreatePollToDeadline(t)
    \/ \E t \in Tasks : CreateSave3(t)
    \/ \E t \in Tasks : CreateReturn(t)
    \/ \E t \in Tasks : CreateSaveFail(t)
    \/ \E t \in Tasks : CreateRaise(t)
    \/ \E t \in Tasks, sid \in SandboxIds : DestroyStart(t, sid, TRUE, "user_requested")
    \/ \E t \in Tasks : DestroyDocker(t)
    \/ \E t \in Tasks : DestroyMark(t)
    \/ \E t \in Tasks : DestroyFail(t)
    \/ \E t \in Tasks : DestroyReturn(t)
    \/ \E c \in containers : ContainerReady(c)
    \/ \E c \in containers : ContainerExit(c)

SpecCreate == Init /\ [][NextCreate]_vars

(* Several sandboxes one after the other (their handlers never share     *)
(* state), each with destroys beside it                                  *)
MaxIds == 2
CreateStartIds(t) == CreateBegin(t, MaxIds)

NextIds ==
    \/ CreateStartIds(1)
    \/ \E t \in Tasks : CreateRun(t)
    \/ \E t \in Tasks : CreateSave2(t)
    \/ \E t \in Tasks : CreatePoll(t)
    \/ \E t \in Tasks : CreateSave3(t)
    \/ \E t \in Tasks : CreateReturn(t)
    \/ \E t \in Tasks : CreateSaveFail(t)
    \/ \E t \in Tasks : CreateRaise(t)
    \/ \E t \in Tasks, sid \in 1..MaxIds : DestroyStart(t, sid, FALSE, "admin")
    \/ \E t \in Tasks : DestroyDocker(t)
    \/ \E t \in Tasks : DestroyMark(t)
    \/ \E t \in Tasks : DestroyFail(t)
    \/ \E t \in Tasks : DestroyReturn(t)
    \/ \E c \in containers : ContainerReady(c)
    \/ \E c \in containers : ContainerExit(c)

SpecIds == Init /\ [][NextIds]_vars

\* creation, destruction and user access, with the runtime's own events
NextAccess ==
    \/ \E t \in Tasks : CreateStart(t)
    \/ \E t \in Tasks : CreateRun(t)
    \/ \E t \in Tasks : CreateSave2(t)
    \/ \E t \in Tasks : CreatePoll(t)
    \/ \E t \in Tasks : CreateSave3(t)
    \/ \E t \in Tasks : CreateReturn(t)
    \/ \E t \in Tasks : CreateSaveFail(t)
    \/ \E t \in Tasks : CreateRaise(t)
    \/ \E t \in Tasks, sid \in SandboxIds, g \in BOOLEAN :
           DestroyStart(t, sid, g, "user_requested")
    \/ \E t \in Tasks : DestroyDocker(t)
    \/ \E t \in Tasks : DestroyMark(t)
    \/ \E t \in Tasks : DestroyFail(t)
    \/ \E t \in Tasks : DestroyReturn(t)
    \/ \E t \in Tasks, sid \in SandboxIds : AccessStart(t, sid)
    \/ \E t \in Tasks : AccessExecBegin(t)
    \/ \E t \in Tasks : AccessRun(t)
    \/ \E c \in containers : ContainerReady(c)
    \/ \E c \in containers : ContainerExit(c)

SpecAccess == Init /\ [][NextAccess]_vars

\* create requests with any user_id, creations run to their end
NextUsers ==
    \/ \E t \in Tasks, u \in UserIds, fault \in StorageFaults :
           CreateRequest(t, MaxSandboxes, u, fault)
    \/ \E t \in Tasks : CreateRun(t)
    \/ \E t \in Tasks : CreateSave2(t)
    \/ \E t \in Tasks : CreatePoll(t)
    \/ \E t \in Tasks : CreateSave3(t)
    \/ \E t \in Tasks : CreateReturn(t)
    \/ \E t \in Tasks : CreateSaveFail(t)
    \/ \E t \in Tasks : CreateRaise(t)
    \/ \E c \in containers : ContainerReady(c)

SpecUsers == Init /\ [][NextUsers]_vars

\* the users whose creations the listings run beside: one UUID in upper
\* case, another in the canonical spelling
ListedUsers == {"U1", "u2"}
\* accepted create requests of two users, and listings with any argument
NextList ==
    \/ \E t \in Tasks, u \in ListedUsers : CreateRequest(t, MaxIds, u, "none")
    \/ \E t \in Tasks : CreateRun(t)
    \/ \E t \in Tasks : CreateSave2(t)
    \/ \E t \in Tasks : CreatePoll(t)
    \/ \E t \in Tasks : CreateSave3(t)
    \/ \E t \in Tasks : CreateReturn(t)
    \/ \E t \in Tasks : CreateSaveFail(t)
    \/ \E t \in Tasks : CreateRaise(t)
    \/ \E t \in Tasks, u \in ListArgs : ListSandboxes(t, u)
    \/ \E c \in containers : ContainerReady(c)

SpecList == Init /\ [][NextList]_vars

\* the handlers together with the store's reconcile and expire_stale, which
\* nothing in the orchestrator calls: a caller may run them at any moment
StepSweep ==
    \/ \E t \in Tasks : CreateRun(t)
    \/ \E t \in Tasks : CreateSave2(t)
    \/ \E t \in Tasks : CreatePoll(t)
    \/ \E t \in Tasks : CreateSave3(t)
    \/ \E t \in Tasks : CreateReturn(t)
    \/ \E t \in Tasks : CreateSaveFail(t)
    \/ \E t \in Tasks : CreateRaise(t)
    \/ \E t \in Tasks : DestroyDocker(t)
    \/ \E t \in Tasks : DestroyMark(t)
    \/ \E t \in Tasks : DestroyFail(t)
    \/ \E t \in Tasks : DestroyReturn(t)
    \/ \E t \in Tasks : ReconcileStep(t)

NextSweep ==
    \/ StepSweep
    \/ \E t \in Tasks : CreateStart(t)
    \/ \E t \in Tasks, sid \in SandboxIds :
           DestroyStart(t, sid, FALSE, "user_requested")
    \/ \E t \in Tasks, L \in SUBSET ContainerIds : ReconcileStart(t, L)
    \/ \E t \in Tasks : ExpireStale(t)
    \/ \E d \in TickSizes : Tick(d)
    \/ \E c \in containers : ContainerReady(c)
    \/ \E c \in containers : ContainerExit(c)

SpecSweep == Init /\ [][NextSweep]_vars

\* the event loop resumes every handler that is in flight; nothing starts a
\* request, a sweep or a clock tick on its own
SpecLive == Init /\ [][NextSweep]_vars /\ WF_vars(StepSweep)

(* ------------------------------ claims -------------------------------- *)
InFlight(t) == ~Idle(t)
MutatingOps == {"create", "destroy", "access"}
CreateExceptions == {"run_error", "port_error", "poll_exception"}

\* C1: once a record's status is stopped, failed or expired, no step of any
\* operation changes its status.
C1_TerminalAbsorbing ==
    [][\A sid \in DOMAIN store :
          store[sid].status \in TerminalStatuses
              => store'[sid].status = store[sid].status]_vars

\* C2: for every sandbox_id the runtime holds at most one live container
\* named with that id.
C2_AtMostOneLiveContainer ==
    \A id \in 1..MaxIds : Cardinality(Live(id)) <= 1

\* two sandboxes have been created and the container of each is live
C2_TwoSandboxesLive ==
    /\ nextId > 2
    /\ Live(1) # {}
    /\ Live(2) # {}

\* C3: for any sandbox_id at most one of create, destroy and generate_access
\* is in flight at a time.
C3_MutualExclusion ==
    \A t, u \in Tasks :
        (t # u /\ InFlight(t) /\ InFlight(u)
            /\ tasks[t].op \in MutatingOps /\ tasks[u].op \in MutatingOps)
        => tasks[t].sid # tasks[u].sid

\* C4: an exec that begins when destroy has already marked the record stopped
\* never runs a command in a container.
C4_ExecAfterDestroyRejected ==
    \A t \in Tasks :
        (tasks[t].op = "exec" /\ tasks[t].stoppedAtBegin) => ~tasks[t].ranCmd

\* C5: when create returns or raises, the registry's record for the
\* generated id is ready or failed, and a returned record is ready or failed
\* and equals the registry's record.
C5_CreateReturnsReadyOrFailed ==
    [][\A t \in Tasks :
          (tasks[t].pc \in {"c_ret", "c_raise"} /\ tasks'[t].pc = "done"
              /\ tasks[t].sid \in DOMAIN store')
          => /\ store'[tasks[t].sid].status \in {"ready", "failed"}
             /\ tasks'[t].ret = "record"
                  => /\ tasks'[t].retRec.status \in {"ready", "failed"}
                     /\ tasks'[t].retRec = Proj(store'[tasks[t].sid])]_vars

C7_FailedCreateRemovesContainer ==
    \A t \in Tasks :
        (tasks[t].pc = "done" /\ tasks[t].op = "create"
            /\ tasks[t].cause # "none" /\ tasks[t].cid # Null)
        => \A c \in containers : c.cid = tasks[t].cid => c.status # "running"

\* C8: the runtime is asked to create a container only for a sandbox_id whose
\* record is already in the registry, and a handler that started or removed
\* a container has written the registry after that call when it returns.
C8_RegistryBeforeRunAndAfterDriverCalls ==
    [][/\ \A c \in containers' :
             (\A d \in containers : d.cid # c.cid) => c.name \in DOMAIN store
       /\ \A t \in Tasks : tasks'[t].pc = "done" => tasks'[t].synced]_vars

\* a destroy has removed the container and returned
C8_DestroyRemovedAndReturned ==
    \E t \in Tasks :
        /\ tasks[t].pc = "done" /\ tasks[t].op = "destroy"
        /\ tasks[t].cause = "removed" /\ tasks[t].ret = "true"

\* C9: a record in status ready, running or shutting_down has a container_id.
C9_ActiveHasContainerId ==
    \A sid \in DOMAIN store :
        store[sid].status \in ActiveStatuses => store[sid].container_id # Null

\* C10: a record's stopped_at is non-null exactly when its status is
\* stopped, failed or expired.
C10_StoppedAtIffTerminal ==
    \A sid \in DOMAIN store :
        (store[sid].stopped_at # NoTime) <=> (store[sid].status \in TerminalStatuses)

(* ----------------------- claims on the operations --------------------- *)
\* task t begins an operation in this step
Begins(t) == Idle(t) /\ tasks'[t] # tasks[t]
DestroyApiErrors == {"api_error", "stopped_api_error"}

\* C11: a get that begins after destroy returned true for the id returns a
\* record, and the record's status is stopped.
C11_GetAfterDestroyStopped ==
    \A t \in Tasks :
        (tasks[t].op = "get" /\ tasks[t].afterDestroy)
        => /\ tasks[t].ret = "record"
           /\ tasks[t].retRec.status = "stopped"

\* C12: when the runtime reports not-found during destroy of an existing
\* record, destroy marks the record stopped and returns true.
C12_NotFoundIsSuccess ==
    [][\A t \in Tasks :
          LET f == tasks[t]
              g == tasks'[t]
          IN /\ (f.pc = "d_docker" /\ g # f /\ g.cause = "not_found")
                => g.pc = "d_mark" /\ containers' = containers
             /\ (f.pc = "d_mark" /\ f.cause = "not_found" /\ g # f)
                => /\ store'[f.sid].status = "stopped"
                   /\ g.pc = "d_ret" /\ g.ret = "true"
             /\ (f.pc = "d_ret" /\ f.cause = "not_found" /\ g # f)
                => g.pc = "done" /\ g.ret = "true"]_vars

\* a destroy that found no container has returned true
C12_NotFoundReturnedTrue ==
    \E t \in Tasks :
        /\ tasks[t].pc = "done" /\ tasks[t].op = "destroy"
        /\ tasks[t].cause = "not_found" /\ tasks[t].ret = "true"
        /\ store[tasks[t].sid].status = "stopped"

\* C13: when the runtime reports an API error during destroy (lookup, stop,
\* kill or remove), destroy marks the record failed and returns false, which
\* the DELETE route answers with a 5xx; the runtime calls are made once.
C13_ApiErrorMarksFailed ==
    [][\A t \in Tasks :
          LET f == tasks[t]
              g == tasks'[t]
          IN /\ (f.pc = "d_docker" /\ g # f /\ g.cause \in DestroyApiErrors)
                => g.pc = "d_fail"
             /\ (f.pc = "d_fail" /\ g # f)
                => /\ store'[f.sid].status = "failed"
                   /\ g.pc = "d_ret" /\ g.ret = "false"
             /\ (f.pc = "d_ret" /\ f.cause \in DestroyApiErrors /\ g # f)
                => /\ g.pc = "done" /\ g.ret = "false"
                   /\ DeleteStatus(TRUE, g.ret) >= 500
             /\ (g.pc = "d_docker" /\ f.pc # "d_docker") => Idle(t)]_vars

\* a destroy whose runtime call raised APIError has returned false
C13_ApiErrorReturnedFalse ==
    \E t \in Tasks :
        /\ tasks[t].pc = "done" /\ tasks[t].op = "destroy"
        /\ tasks[t].cause \in DestroyApiErrors /\ tasks[t].ret = "false"
        /\ store[tasks[t].sid].status = "failed"

\* C14: a successful destroy leaves the record's stop_reason equal to the
\* reason argument, whatever the store backend.
C14_StopReasonRecorded ==
    [][\A t \in Tasks :
          (tasks[t].pc = "d_mark" /\ tasks'[t].pc = "d_ret")
          => store'[tasks[t].sid].stop_reason = tasks[t].reason]_vars

\* C15: destroy, heartbeat and exec applied to a record that is stopped,
\* failed or expired return an error at once and change neither the registry
\* nor the runtime.
C15_TerminalRecordsNotMutated ==
    [][\A t \in Tasks :
          LET g == tasks'[t]
          IN (/\ Begins(t) /\ g.op \in {"destroy", "heartbeat", "exec"}
              /\ g.sid \in DOMAIN store
              /\ store[g.sid].status \in TerminalStatuses)
             => /\ store' = store
                /\ containers' = containers
                /\ g.pc = "done"
                /\ g.ret \in {"false", "ValueError", "RuntimeError"}]_vars

\* C16: no step removes a record from the registry, and the record of a
\* destroyed (stopped) sandbox stays a terminal record.
C16_RecordsRetainedAsTerminal ==
    [][/\ DOMAIN store \subseteq DOMAIN store'
       /\ \A sid \in DOMAIN store :
             store[sid].status = "stopped"
                 => (sid \in DOMAIN store'
                       /\ store'[sid].status \in TerminalStatuses)]_vars

\* C17: an exec that finds the container in a runtime status other than
\* running raises RuntimeError and runs no command in the container.
C17_ExecRequiresRunning ==
    [][\A t \in Tasks :
          (tasks[t].pc = "e_run" /\ tasks'[t].pc = "done"
              /\ Live(tasks[t].sid) = {})
          => /\ tasks'[t].ret = "RuntimeError"
             /\ ~tasks'[t].ranCmd]_vars

\* an exec found its container exited and was refused
C17_ExecRefusedOnExited ==
    \E t \in Tasks :
        /\ tasks[t].pc = "done" /\ tasks[t].op = "exec"
        /\ tasks[t].cause = "not_running" /\ tasks[t].ret = "RuntimeError"

\* C18: a command of length max_command_length passes exec's validation; a
\* longer one is rejected with ValueError before any runtime call and
\* without a change of the registry, and is never run.
C18_CommandLengthLimit ==
    [][\A t \in Tasks :
          LET g == tasks'[t]
          IN /\ (Begins(t) /\ g.op = "exec" /\ g.cmdLen > MaxCommandLength)
                => /\ g.pc = "done" /\ g.ret = "ValueError"
                   /\ store' = store /\ containers' = containers
             /\ (/\ Begins(t) /\ g.op = "exec" /\ g.cmdLen = MaxCommandLength
                 /\ g.sid \in DOMAIN store
                 /\ store[g.sid].container_id # Null)
                => g.pc = "e_run"
             /\ g.ranCmd => g.cmdLen <= MaxCommandLength]_vars

\* a command of exactly the maximal length has run, and one that is one
\* character longer was rejected for its length
C18_LimitRanAndLongerRejected ==
    \E t, u \in Tasks :
        /\ tasks[t].op = "exec" /\ tasks[t].cmdLen = MaxCommandLength
        /\ tasks[t].ranCmd
        /\ tasks[u].op = "exec" /\ tasks[u].cmdLen = MaxCommandLength + 1
        /\ tasks[u].cause = "too_long" /\ tasks[u].ret = "ValueError"

\* C19: heartbeat on an existing record changes no field of the record but
\* last_heartbeat_at.
C19_HeartbeatKeepsStatus ==
    [][\A t \in Tasks :
          LET g == tasks'[t]
          IN (Begins(t) /\ g.op = "heartbeat" /\ g.sid \in DOMAIN store)
             => [store'[g.sid] EXCEPT !.last_heartbeat_at = NoTime]
                  = [store[g.sid] EXCEPT !.last_heartbeat_at = NoTime]]_vars

\* C20: for an id that is not in the registry get returns none, heartbeat and
\* destroy return false, none of them changes the registry or calls the
\* runtime; heartbeat returns true exactly when the record exists.
C20_UnknownIdRejected ==
    [][\A t \in Tasks :
          LET g == tasks'[t]
          IN /\ (/\ Begins(t) /\ g.op \in {"get", "heartbeat", "destroy"}
                 /\ g.sid \notin DOMAIN store)
                => /\ g.pc = "done"
                   /\ g.ret = IF g.op = "get" THEN "none" ELSE "false"
                   /\ store' = store
                   /\ containers' = containers
             /\ (Begins(t) /\ g.op = "heartbeat")
                => (g.ret = "true" <=> g.sid \in DOMAIN store)]_vars

\* heartbeat, get or destroy was called with an id the registry does not hold
\* and has answered
C20_UnknownIdAnswered ==
    \E t \in Tasks :
        /\ tasks[t].pc = "done" /\ tasks[t].sid \notin DOMAIN store
        /\ tasks[t].op \in {"get", "heartbeat", "destroy"}
        /\ tasks[t].ret \in {"none", "false"}

(* ------------------------- claims on the store ------------------------ *)
Statuses == {"creating", "starting", "ready", "running", "shutting_down",
             "stopped", "failed", "expired"}

\* C26: a get that follows save(r) returns a record equal to r in every
\* field, ssh_port and status included, on a first save and on an upsert.
C26_SaveGetRoundTrip ==
    [][\A t \in Tasks :
          (tasks[t].pc \in {"c_save2", "c_save3", "c_savefail"}
              /\ tasks'[t].pc # tasks[t].pc)
          => Proj(store'[tasks[t].sid]) = Obj(t)]_vars

\* C27: the same store call made on the in-memory and on the Postgres
\* backend, from the same registry, returns the same result and leaves the
\* same status.
C27_BackendsAgree ==
    \A sid \in DOMAIN store :
        /\ \A status \in Statuses :
              MemUpdateStatus(store, sid, status)[sid].status
                  = PgUpdateStatus(store, sid, status)[sid].status
        /\ MemMarkStopped(store, sid, "admin")[sid].status
              = PgMarkStopped(store, sid, "admin")[sid].status
        /\ MemUpdateHeartbeat(store, sid)[sid].status
              = PgUpdateHeartbeat(store, sid)[sid].status
        /\ \A t \in Tasks :
              (tasks[t].op = "create" /\ InFlight(t) /\ tasks[t].sid = sid)
              => Proj(MemSave(store, sid, Obj(t))[sid])
                   = Proj(PgSave(store, sid, Obj(t))[sid])

(* ------------------------ claims on the routes ------------------------ *)
\* C29: when POST complete or POST error answers 2xx, the graceful destroy
\* it awaited has left the record in a terminal status; on an unknown id the
\* answer is 404 and nothing is destroyed.
C29_CallbackAnswersAfterDestroy ==
    [][\A t \in Tasks :
          LET f == tasks[t]
              g == tasks'[t]
          IN /\ (/\ f.pc = "d_ret" /\ g.pc = "done"
                 /\ f.graceful /\ f.reason \in CallbackReasons
                 /\ CallbackStatus(TRUE, g.ret) = 200)
                => store'[f.sid].status \in TerminalStatuses
             /\ (Begins(t) /\ g.op = "destroy" /\ g.sid \notin DOMAIN store)
                => /\ CallbackStatus(FALSE, g.ret) = 404
                   /\ store' = store /\ containers' = containers]_vars

\* C28: generate_access never writes the registry (no status, timestamp or
\* container_id changes, and no key is stored in a record); it runs at most
\* one exec, and when it returns credentials it has run exactly one exec,
\* as root
C28_AccessReadOnlyOneRootExec ==
    [][\A t \in Tasks :
          (tasks'[t] # tasks[t] /\ tasks'[t].op = "access")
          => /\ store' = store
             /\ tasks'[t].execs <= 1
             /\ tasks'[t].ret = "credentials"
                  => /\ tasks'[t].execs = 1
                     /\ tasks'[t].user = "root"]_vars

C28_CredentialsReturned ==
    \E t \in Tasks : /\ tasks[t].op = "access" /\ tasks[t].pc = "done"
                     /\ tasks[t].ret = "credentials" /\ tasks[t].execs = 1
                     /\ tasks[t].user = "root"
                     /\ store[tasks[t].sid].status = "ready"

C22_ExpirerMarksEveryDueRecord ==
    [][\A t \in Tasks :
          (Begins(t) /\ tasks'[t].op = "expire" /\ tasks'[t].ret = "ids")
          => LET due == {i \in DOMAIN store :
                            /\ store[i].status \in {"creating", "starting", "ready",
                                                    "running", "shutting_down"}
                            /\ ExpiresAt(store[i]) < now}
             IN /\ \A i \in due : /\ store'[i].status = "expired"
                                  /\ store'[i].stop_reason = "expired"
                                  /\ store'[i].stopped_at # NoTime
                /\ tasks'[t].marked = due
                /\ \A i \in DOMAIN store \ due : store'[i] = store[i]]_vars

\* C25: on every registry the program reaches, a second reconciler pass with
\* the same live set (at the same or a later time) and a second expirer pass
\* at the same time change no record: the result of two passes is the result
\* of one
C25_SweepsIdempotent ==
    /\ \A L \in SUBSET ContainerIds : \A later \in {now, now + 1} :
          ReconcileResult(ReconcileResult(store, L, now), L, later)
              = ReconcileResult(store, L, now)
    /\ ExpireResult(ExpireResult(store, now), now) = ExpireResult(store, now)

C25_SecondPassChangedNothing ==
    \E t \in Tasks, u \in Tasks :
        /\ tasks[t].op = "reconcile" /\ tasks[t].pc = "done" /\ tasks[t].marked # {}
        /\ tasks[u].op = "reconcile" /\ tasks[u].pc = "done" /\ tasks[u].ret = "none"
        /\ tasks[u].marked = {}
        /\ \A i \in tasks[t].marked : /\ store[i].status = "stopped"
                                      /\ store[i].stop_reason = "graceful_shutdown"
        /\ \A L \in SUBSET ContainerIds : ReconcileResult(store, L, now + 1) = store

\* C23: for every id an expirer pass returned, a non-graceful destroy
\* follows, so the container of an expired sandbox is eventually removed
\* from the runtime while its record stays expired
C23_ExpiredContainerEventuallyRemoved ==
    \A sid \in SandboxIds :
        (sid \in DOMAIN store /\ store[sid].status = "expired" /\ Named(sid) # {})
        ~> (sid \in DOMAIN store /\ store[sid].status = "expired" /\ Named(sid) = {})

\* C24: the reconciler and the expirer run repeatedly, so a non-terminal
\* record whose container has vanished from the runtime is eventually
\* stopped (or otherwise terminal), and a non-terminal record past its
\* expiry is eventually expired (or otherwise terminal)
C24_SweepsEventuallyRun ==
    \A sid \in SandboxIds :
        /\ (/\ sid \in DOMAIN store
            /\ store[sid].status \in ReconcileStatuses
            /\ store[sid].container_id # Null
            /\ Named(sid) = {})
           ~> (sid \in DOMAIN store /\ store[sid].status \in TerminalStatuses)
        /\ (/\ sid \in DOMAIN store
            /\ store[sid].status \in ExpireStatuses
            /\ ExpiresAt(store[sid]) < now)
           ~> (sid \in DOMAIN store /\ store[sid].status \in TerminalStatuses)

\* C30: a callback makes at most 3 attempts; a further attempt follows only
\* a connection or timeout error; the waits between attempts are 0.5 s and
\* 1.0 s, with none after the last attempt; the first response is returned
\* with no further attempt; after the third failed attempt the request ends
\* in an error, which heartbeat turns into a false result
C30_BoundedRetryWithBackoff ==
    [][LET c == client  d == client'
       IN /\ d.attempt <= 3
          /\ d.attempt = c.attempt + 1 /\ c.pc # "done" /\ c.pc # "idle"
               => c.last_error \in {"ConnectError", "TimeoutException"}
          /\ Len(d.waits) <= 2
          /\ d.pc \in {"try", "done"} => Len(d.waits) <= d.attempt - 1
          /\ \A i \in 1..Len(d.waits) : d.waits[i] = IF i = 1 THEN 500 ELSE 1000
          /\ (c.pc = "try" /\ d.status # 0)
               => d.pc = "done" /\ d.attempt = c.attempt /\ d.error = "none"
          /\ (c.pc = "try" /\ d.pc = "done" /\ d.status = 0 /\ d.error # "HTTPError")
               => /\ d.attempt = 3 /\ d.error = "RuntimeError"
                  /\ d.waits = <<500, 1000>>
          /\ (c.pc = "try" /\ c.attempt = 3) => d.pc = "done"
          /\ (d.pc = "done" /\ d.op = "heartbeat")
               => d.result = IF d.status = 200 THEN "true" ELSE "false"]_vars

C30_ThreeFailuresHeartbeatFalse ==
    /\ client.pc = "done" /\ client.op = "heartbeat"
    /\ client.attempt = 3 /\ client.waits = <<500, 1000>>
    /\ client.error = "RuntimeError" /\ client.result = "false"

\* C38: generate_access returns credentials only when the exec that injects
\* the public key exited with code 0
C38_CredentialsOnlyAfterInjection ==
    \A t \in Tasks :
        (tasks[t].op = "access" /\ tasks[t].pc = "done" /\ tasks[t].ret = "credentials")
        => (tasks[t].execs = 1 /\ tasks[t].exitCode = 0)

\* C37: every destroy call on an existing record ends, whether it returns or
\* raises, with the record in stopped or failed
C37_DestroyEndsStoppedOrFailed ==
    [][\A t \in Tasks :
          LET f == tasks[t]  g == tasks'[t]
          IN (f.op = "destroy" /\ f.pc \in {"d_docker", "d_ret"} /\ g.pc = "done")
             => store'[f.sid].status \in {"stopped", "failed"}]_vars

\* C36: destroy sets the record to shutting_down before any runtime call;
\* its runtime calls are a prefix of get, stop, remove when graceful and of
\* get, kill, remove when not, with no registry write in between; the
\* container leaves the runtime only through the remove at the end; and the
\* record is set to stopped only after the remove succeeded (or the runtime
\* reported the container not found)
C36_DestroyOrder ==
    [][\A t \in Tasks :
          LET f == tasks[t]  g == tasks'[t]
              full == <<"get", IF f.graceful THEN "stop" ELSE "kill", "remove">>
          IN /\ (Begins(t) /\ g.op = "destroy" /\ g.pc = "d_docker")
                  => /\ store'[g.sid].status = "shutting_down"
                     /\ g.calls = << >>
                     /\ containers' = containers
             /\ (f.pc = "d_docker" /\ g # f)
                  => /\ Len(g.calls) \in 1..3
                     /\ g.calls = SubSeq(full, 1, Len(g.calls))
                     /\ containers' # containers => Len(g.calls) = 3
                     /\ store' = store
             /\ (f.op = "destroy" /\ g # f /\ f.pc # "done"
                 /\ store'[f.sid].status = "stopped" /\ store[f.sid].status # "stopped")
                  => /\ f.pc = "d_mark"
                     /\ \/ f.calls = full /\ f.cause = "removed"
                        \/ f.cause = "not_found"]_vars

C36_GracefulDestroyCompleted ==
    \E t \in Tasks :
        /\ tasks[t].op = "destroy" /\ tasks[t].pc = "done" /\ tasks[t].ret = "true"
        /\ tasks[t].calls = <<"get", "stop", "remove">>
        /\ store[tasks[t].sid].status = "stopped"
        /\ Named(tasks[t].sid) = {}

\* C34: a readiness tick on a container the runtime reports exited makes the
\* record failed; otherwise a probe that exits 0 makes it ready; a driver
\* error (not found, API error) makes it failed; polling stops at the first
\* such outcome, goes on only while the container runs without its readiness
\* file, and a record becomes ready only through a probe that exited 0 on a
\* container not reported exited
C34_ReadinessTickOrder ==
    [][\A t \in Tasks :
          LET f == tasks[t]  g == tasks'[t]
              found == Named(f.sid)
              c == CHOOSE x \in found : TRUE
          IN (f.pc = "c_poll" /\ g # f /\ f.elapsed < 120)
             => /\ (found # {} /\ c.status = "exited")
                     => g.pc # "c_poll" /\ g.sb.status = "failed"
                /\ (found # {} /\ c.status # "exited" /\ c.ready)
                     => /\ g.pc # "c_poll"
                        /\ g.sb.status = "ready" \/ g.cause \in {"probe_error", "poll_exception"}
                /\ found = {} => g.pc # "c_poll" /\ g.sb.status = "failed"
                /\ g.cause \in {"exited", "not_found", "probe_error"}
                     => g.pc = "c_save3" /\ g.sb.status = "failed"
                /\ g.sb.status = "ready"
                     => /\ found # {} /\ c.status # "exited" /\ c.ready
                        /\ g.pc = "c_save3"
                /\ g.pc = "c_poll"
                     => /\ found # {} /\ c.status # "exited" /\ ~c.ready
                        /\ store' = store]_vars

C34_ExitedAfterReadyFailed ==
    \E t \in Tasks :
        /\ tasks[t].op = "create" /\ tasks[t].pc = "c_save3"
        /\ tasks[t].cause = "exited" /\ tasks[t].sb.status = "failed"
        /\ \E c \in Named(tasks[t].sid) : c.status = "exited" /\ c.ready

\* C35: the readiness poll ends: every tick that does not decide adds 2 s to
\* a counter that never passes 120 s, so at most 60 ticks are made; the
\* deadline is declared at 120 s and not before, and the record is then
\* saved as failed
C35_PollDeadline ==
    [][\A t \in Tasks :
          LET f == tasks[t]  g == tasks'[t]
          IN /\ (f.pc = "c_poll" /\ g # f)
                  => /\ g.pc = "c_poll" => (f.elapsed < 120 /\ g.elapsed = f.elapsed + 2)
                     /\ g.elapsed <= 120
                     /\ f.elapsed >= 120
                          => /\ g.pc = "c_save3" /\ g.cause = "timeout"
                             /\ g.sb.status = "failed"
                     /\ g.cause = "timeout" => f.elapsed = 120
             /\ (f.pc = "c_save3" /\ f.cause = "timeout" /\ g.pc = "c_ret")
                  => store'[f.sid].status = "failed"]_vars

C35_DeadlineFailed ==
    \E t \in Tasks :
        /\ tasks[t].op = "create" /\ tasks[t].pc = "c_ret"
        /\ tasks[t].cause = "timeout" /\ tasks[t].elapsed = 120
        /\ store[tasks[t].sid].status = "failed"

\* C31: with an API key configured, a request to a /sandboxes route reaches
\* its handler only if one of its two headers carries the configured key; a
\* request that carries no key is answered 401, one that carries only wrong
\* keys 403, one that carries only the configured key reaches the handler;
\* /health reaches its handler with or without a key
C31_ApiKeyEnforced ==
    \A t \in Tasks :
        LET f == tasks[t]
            carried == {k \in {f.req.x_api_key,
                               IF f.req.authorization.scheme = "Bearer"
                               THEN f.req.authorization.key ELSE ""} : k # ""}
        IN (f.op = "request" /\ f.pc = "done")
           => /\ (f.api_key # "" /\ f.req.path \in {"/sandboxes", "/sandboxes/1/exec"})
                   => /\ f.ret = "handler" => f.api_key \in carried
                      /\ carried = {} => f.ret = "401"
                      /\ (carried # {} /\ f.api_key \notin carried) => f.ret = "403"
                      /\ carried = {f.api_key} => f.ret = "handler"
              /\ f.req.path = "/health" => f.ret = "handler"

C31_BearerKeyAccepted ==
    \E t \in Tasks :
        /\ tasks[t].op = "request" /\ tasks[t].pc = "done"
        /\ tasks[t].api_key = "k1" /\ tasks[t].req.path = "/sandboxes"
        /\ tasks[t].req.x_api_key = ""
        /\ tasks[t].req.authorization = [scheme |-> "Bearer", key |-> "k1"]
        /\ tasks[t].ret = "handler"

C33_ListExactlyTheUsersRecords ==
    [][\A t \in Tasks :
          LET g == tasks'[t]
          IN (Begins(t) /\ g.op = "list")
             => /\ g.ret = "ok"
                /\ \A i, j \in 1..Len(g.listed) : i # j => g.listed[i] # g.listed[j]
                /\ {g.listed[i] : i \in 1..Len(g.listed)}
                     = IF g.user_id = NoUser THEN DOMAIN store
                       ELSE {sid \in DOMAIN store : store[sid].user_id = g.user_id}]_vars

\* C39: Write to an existing file, Edit and MultiEdit return an error and
\* leave the file as it is unless a Read of that file succeeded earlier in
\* the session; Write to a path that does not exist needs no earlier Read
C39_ReadBeforeWrite ==
    [][\A p \in ToolPaths :
          LET res == session'.result
          IN (session'.n # session.n /\ res.path = p
              /\ res.tool \in {"Write", "Edit", "MultiEdit"})
             => /\ (fs[p].exists /\ p \notin session.read_ok)
                     => (res.type = "error" /\ fs' = fs)
                /\ (res.tool = "Write" /\ ~fs[p].exists /\ res.fault = "none")
                     => (res.type = "ok" /\ fs'[p].exists)]_vars

\* C40: whenever the browser is running the active page id names a page of
\* the tab map, and ensure_browser returns a page, also after the last open
\* tab was closed
C40_ActivePageOpen ==
    /\ IsRunning(browser) => browser.active_page_id \in PageIds(browser)
    /\ browser.result \notin {"AssertionError", "KeyError"}

=============================================================================
